---- MODULE Spec2Model ----
(***************************************************************************)
(* Model of the asynchronous patterns of nc-posts.                         *)
(*                                                                         *)
(*  - the counter-based fan-in of node-patterns-concurrency                *)
(*    (file-read-with-okay.js, lines 276-287);                             *)
(*  - the HTTP/2 server-push middleware (unnamed/part_000, lines 193-248); *)
(*  - getCustomers, hand-written and with okay (unnamed/part_000, lines    *)
(*    1-31, and file-read-with-okay.js, lines 1-30);                       *)
(*  - the event loop of how-event-loop-really-works/readme.md running the  *)
(*    throw / setTimeout scripts of node-patterns-concurrency.             *)
(*                                                                         *)
(* Node runs one callback at a time, so every callback is one action.      *)
(***************************************************************************)
EXTENDS Integers, Sequences, FiniteSets, TLC

(* ---------------- bounds ---------------- *)

\* largest value tried for the literal of the loop (10 in the snippet)
MaxN == 4

\* how many times the opaque makeRequest may invoke one callback
MaxReports == 2

(***************************************************************************)
(* Counter-based fan-in                                                    *)
(*                                                                         *)
(*   var j = 0                                                             *)
(*   var responses = {}                                                    *)
(*   for (var i = 1; i<=10; i++) {                                         *)
(*     makeRequest(i, function(response) {                                 *)
(*       j++                                                               *)
(*       console.log(response)                                             *)
(*       responses[i] = (response)                                         *)
(*       if (j == 10) processResponses(responses)                          *)
(*     })                                                                  *)
(*   }                                                                     *)
(***************************************************************************)
VARIABLES
  N,            \* the literal of "i<=10" and "j == 10"
  pc,           \* "loop": the script is running; "events": the event loop
                \* runs callbacks; "crashed": an exception reached the top
  i,            \* var i, function scoped: one variable shared by all callbacks
  j,            \* var j
  responses,    \* var responses: key -> response
  requests,     \* the indices makeRequest has been called with
  reports,      \* reports[k]: how often the callback of request k has run
  processCalls, \* the arguments of the calls of processResponses, in order
  uncaught      \* an exception propagated to the top level

fanVars == <<N, pc, i, j, responses, requests, reports, processCalls, uncaught>>

(***************************************************************************)
(* HTTP/2 server-push middleware (one request)                             *)
(***************************************************************************)
VARIABLES
  files,        \* let files = {}: file name -> the src values found in it
  pstate,       \* "idle": no request yet; "running": parallel(...) started;
                \* "next": next() was called; "crashed": uncaught exception
  urlName,      \* let urlName
  assets,       \* let assets: the tasks handed to parallel, HTML task first
  readPending,  \* the tasks whose fs.readFile has not called back yet
  cbCalls,      \* cbCalls[t]: how often task t has called its cb
  coord,        \* the state of parallel(assets, handler)
  responseLog,  \* what was done to response, in order
  nextCalls,    \* calls of next()
  firstFail,    \* history: the first task that failed, and why
  handlerThrew, \* history: response.end() threw inside the final callback
  pUncaught     \* an exception propagated to the top level

pushVars == <<files, pstate, urlName, assets, readPending, cbCalls, coord,
              responseLog, nextCalls, firstFail, handlerThrew, pUncaught>>

(***************************************************************************)
(* getCustomers: file-read.js and file-read-with-okay.js, run against the  *)
(* same file system                                                        *)
(***************************************************************************)
VARIABLES
  fsys,         \* what fs.stat, fs.readFile and fs.writeFile will report
  gc            \* gc[v]: the run of version v of getCustomers

custVars == <<fsys, gc>>

(***************************************************************************)
(* The event loop running one script                                       *)
(***************************************************************************)
VARIABLES
  script,       \* the statements of the file
  wrapped,      \* the file is try { statements } catch (error) { console.error(error) }
  phase,        \* the step of the loop: "launch", "timers", "poll",
                \* "immediate", "close", "exit?"; or "exited", "crashed"; "off"
  block,        \* the statements left in the JS block that is running
  origin,       \* what the running block is: "script", "timer", "immediate", "tick"
  tryFrames,    \* the try blocks around the running statement, on the JS stack
  timerQ,       \* callbacks scheduled with setTimeout(cb, 0)
  immediateQ,   \* callbacks scheduled with setImmediate(cb)
  tickQ,        \* callbacks scheduled with process.nextTick(cb)
  due,          \* callbacks the current step still has to run in this cycle
  refs,         \* the refs counter
  cycle,        \* the cycles of the loop started so far
  throwLog,     \* history: every throw, where it ran and whether it was caught
  lastTimer,    \* history: when the timer callback run last was scheduled and run
  ticksRun      \* history: nextTick callbacks run (counted up to MaxTicks)

loopVars == <<script, wrapped, phase, block, origin, tryFrames, timerQ, immediateQ,
              tickQ, due, refs, cycle, throwLog, lastTimer, ticksRun>>

(***************************************************************************)
(* generateRandomNumber(limit, callback), error-first version              *)
(***************************************************************************)
VARIABLES
  limit,        \* the first argument, as a JS value: <<>> (missing) or <<n>>
  rpc,          \* "start": about to be called; "waiting": the slow generator
                \* is running; "done": callback has been invoked; "off"
  genCalls,     \* the calls of slowButGoodRandomGenerator so far
  reported,     \* what the slow generator passed to its callback, if it has
  cbArgs,       \* the arguments of the calls of callback, in order
  console       \* what the caller's callback has printed

randVars == <<limit, rpc, genCalls, reported, cbArgs, console>>

vars == <<fanVars, pushVars, custVars, loopVars, randVars>>

\* the response the remote server gives to request k
Resp(k) == 10 * k

\* the empty object {}
EmptyObject == [x \in {} |-> 0]

\* obj[key] = value
Put(obj, key, value) ==
  [x \in (DOMAIN obj) \cup {key} |-> IF x = key THEN value ELSE obj[x]]

\* the two versions of getCustomers
Versions == {"plain", "okay"}

\* a run of getCustomers before the call
NotCalled(pos) ==
  [pc |-> pos, ops |-> <<>>, calls |-> <<>>, json |-> <<>>, notFound |-> FALSE,
   uncaught |-> FALSE]

\* parallel(...) has not been called
NoCoordinator ==
  [size |-> 0, reported |-> {}, slots |-> {}, completed |-> 0,
   finished |-> FALSE, calls |-> <<>>]


\* one iteration of the for loop: makeRequest(i, callback); i++
Dispatch ==
  /\ pc = "loop"
  /\ i <= N
  /\ requests' = requests \cup {i}
  /\ i' = i + 1
  /\ UNCHANGED <<N, pc, j, responses, reports, processCalls, uncaught>>
  /\ UNCHANGED <<pushVars, custVars, loopVars, randVars>>

\* the loop condition fails and the script ends: the event loop takes over
EndOfScript ==
  /\ pc = "loop"
  /\ ~(i <= N)
  /\ pc' = "events"
  /\ UNCHANGED <<N, i, j, responses, requests, reports, processCalls, uncaught>>
  /\ UNCHANGED <<pushVars, custVars, loopVars, randVars>>

\* a callback that makeRequest could also invoke while the loop still runs
CallbackDuringLoop(k, throws) ==
  /\ pc \in {"loop", "events"}
  /\ k \in requests
  /\ reports[k] < MaxReports
  /\ reports' = [reports EXCEPT ![k] = @ + 1]
  /\ j' = j + 1
  /\ responses' = Put(responses, i, Resp(k))
  /\ IF j' = N
       THEN /\ processCalls' = Append(processCalls, responses')
            /\ IF throws
                 THEN pc' = "crashed" /\ uncaught' = TRUE
                 ELSE UNCHANGED <<pc, uncaught>>
       ELSE /\ ~throws
            /\ UNCHANGED <<processCalls, pc, uncaught>>
  /\ UNCHANGED <<N, i, requests>>
  /\ UNCHANGED <<pushVars, custVars, loopVars, randVars>>

\* the callback of request k runs; throws: processResponses throws
Callback(k, throws) ==
  /\ pc = "events"
  /\ k \in requests
  /\ reports[k] < MaxReports
  /\ reports' = [reports EXCEPT ![k] = @ + 1]
  /\ j' = j + 1
  /\ responses' = Put(responses, i, Resp(k))
  /\ IF j' = N
       THEN /\ processCalls' = Append(processCalls, responses')
            /\ IF throws
                 THEN pc' = "crashed" /\ uncaught' = TRUE
                 ELSE UNCHANGED <<pc, uncaught>>
       ELSE /\ ~throws
            /\ UNCHANGED <<processCalls, pc, uncaught>>
  /\ UNCHANGED <<N, i, requests>>
  /\ UNCHANGED <<pushVars, custVars, loopVars, randVars>>

\* the fan-in script starts; the middleware's server is not part of it
Init ==
  /\ N \in 0..MaxN
  /\ pc = "loop"
  /\ i = 1
  /\ j = 0
  /\ responses = EmptyObject
  /\ requests = {}
  /\ reports = [k \in 1..MaxN |-> 0]
  /\ processCalls = <<>>
  /\ uncaught = FALSE
  /\ files = EmptyObject
  /\ pstate = "off"
  /\ urlName = <<>>
  /\ assets = <<>>
  /\ readPending = {}
  /\ cbCalls = <<>>
  /\ coord = NoCoordinator
  /\ responseLog = <<>>
  /\ nextCalls = 0
  /\ firstFail = <<>>
  /\ handlerThrew = FALSE
  /\ pUncaught = FALSE
  /\ fsys = [stat |-> "file", read |-> [error |-> FALSE, data |-> <<>>], write |-> "ok"]
  /\ gc = [v \in Versions |-> NotCalled("off")]
  /\ script = <<>>
  /\ wrapped = FALSE
  /\ phase = "off"
  /\ block = <<>>
  /\ origin = "none"
  /\ tryFrames = 0
  /\ timerQ = <<>>
  /\ immediateQ = <<>>
  /\ tickQ = <<>>
  /\ due = 0
  /\ refs = 0
  /\ cycle = 0
  /\ throwLog = <<>>
  /\ lastTimer = <<>>
  /\ ticksRun = 0
  /\ limit = <<>>
  /\ rpc = "off"
  /\ genCalls = 0
  /\ reported = <<>>
  /\ cbArgs = <<>>
  /\ console = <<>>

Next ==
  \/ Dispatch
  \/ EndOfScript
  \/ \E k \in 1..MaxN, throws \in BOOLEAN : Callback(k, throws)

Spec == Init /\ [][Next]_vars

(***************************************************************************)
(* The variant that calls processResponses right after the loop            *)
(***************************************************************************)

\* the loop is over: console.log(responses); processResponses(responses);
\* throws: processResponses throws, which ends the script and the process
ProcessAfterLoop(throws) ==
  /\ pc = "loop"
  /\ ~(i <= N)
  /\ processCalls' = Append(processCalls, responses)
  /\ IF throws
       THEN pc' = "crashed" /\ uncaught' = TRUE
       ELSE pc' = "events" /\ UNCHANGED uncaught
  /\ UNCHANGED <<N, i, j, responses, requests, reports>>
  /\ UNCHANGED <<pushVars, custVars, loopVars, randVars>>

\* a callback that makeRequest could also invoke while the loop still runs
StoreCallbackDuringLoop(k) ==
  /\ pc \in {"loop", "events"}
  /\ k \in requests
  /\ reports[k] < MaxReports
  /\ reports' = [reports EXCEPT ![k] = @ + 1]
  /\ responses' = Put(responses, i, Resp(k))
  /\ UNCHANGED <<N, pc, i, j, requests, processCalls, uncaught>>
  /\ UNCHANGED <<pushVars, custVars, loopVars, randVars>>

\* the callback of request k runs: console.log(response); responses[i] = response
StoreCallback(k) ==
  /\ pc = "events"
  /\ k \in requests
  /\ reports[k] < MaxReports
  /\ reports' = [reports EXCEPT ![k] = @ + 1]
  /\ responses' = Put(responses, i, Resp(k))
  /\ UNCHANGED <<N, pc, i, j, requests, processCalls, uncaught>>
  /\ UNCHANGED <<pushVars, custVars, loopVars, randVars>>

AfterNext ==
  \/ Dispatch
  \/ \E throws \in BOOLEAN : ProcessAfterLoop(throws)
  \/ \E k \in 1..MaxN : StoreCallback(k)

AfterSpec == Init /\ [][AfterNext]_vars

(***************************************************************************)
(* HTTP/2 server-push middleware                                           *)
(***************************************************************************)

\* file names and src values are strings, written as tuples of characters
IndexHtml == <<"i", "n", "d", "e", "x", ".", "h", "t", "m", "l">>
BundleJs  == <<"b", ".", "j", "s">>
LogoGif   == <<"l", ".", "g", "i", "f">>
CdnJs     == <<"h", "t", "t", "p", ":", "/", "/", "c", "/", "c", ".", "j", "s">>
Http      == <<"h", "t", "t", "p">>

\* the public folder: every file with the src values of its lines
Public ==
  (IndexHtml :> <<BundleJs, CdnJs, LogoGif>>) @@ (BundleJs :> <<>>) @@ (LogoGif :> <<>>)

\* the pathnames a request may carry
Paths == { <<"/">>, <<"/">> \o IndexHtml, <<"/">> \o BundleJs, <<"/", "/">>,
           <<"/", "x">> }

\* String.prototype.substr(start, length)
Substr(str, start, length) ==
  SubSeq(str, start + 1, IF start + length < Len(str) THEN start + length ELSE Len(str))

\* name.substr(0,4)!='http'
NotHttp(name) == Substr(name, 0, 4) # Http

\* url.parse(request.url).pathname.substr(1), defaulting to index.html
UrlName(pathname) ==
  LET name == Substr(pathname, 1, Len(pathname))
  IN  IF name = <<>> \/ name = <<"/">> THEN IndexHtml ELSE name

\* files[urlName].filter(...).map(...), then assets.unshift(HTML task)
Assets(name) ==
  LET pushed == SelectSeq(files[name], NotHttp)
  IN  <<[kind |-> "html", file |-> name]>>
        \o [x \in 1..Len(pushed) |-> [kind |-> "asset", file |-> pushed[x]]]

\* the keys a task of a request can have: the HTML task and one per src
TaskKeys == 1..(1 + Len(Public[IndexHtml]))

\* no error / no value
None == "none"

(* The coordinator behind require('neo-async').parallel(tasks, handler): a   *)
(* result slot per task key, a completion counter and the fired flag.        *)

\* parallel(tasks, handler) has dispatched size tasks
Parallel(size) ==
  [size |-> size, reported |-> {}, slots |-> {}, completed |-> 0,
   finished |-> (size = 0),
   calls |-> IF size = 0 THEN <<[kind |-> "results", slots |-> {}]>> ELSE <<>>]

\* task key calls cb(err): the coordinator after the call
Report(co, key, err) ==
  IF key \in co.reported
    THEN co
  ELSE IF co.finished
    THEN [co EXCEPT !.reported = @ \cup {key}]
  ELSE IF err # None
    THEN [co EXCEPT !.reported = @ \cup {key},
                    !.finished = TRUE,
                    !.calls = Append(@, [kind |-> "failure", key |-> key, reason |-> err])]
  ELSE IF co.completed + 1 = co.size
    THEN [co EXCEPT !.reported = @ \cup {key},
                    !.slots = @ \cup {key},
                    !.completed = @ + 1,
                    !.finished = TRUE,
                    !.calls = Append(@, [kind |-> "results", slots |-> co.slots \cup {key}])]
  ELSE [co EXCEPT !.reported = @ \cup {key},
                  !.slots = @ \cup {key},
                  !.completed = @ + 1]

\* the call that led from co to co2 invoked the final callback
Fired(co, co2) == Len(co2.calls) > Len(co.calls)

\* the server has started: fs.readdir is in flight and the server listens
PushInit ==
  /\ files = EmptyObject
  /\ pstate = "idle"
  /\ urlName = <<>>
  /\ assets = <<>>
  /\ readPending = {}
  /\ cbCalls = <<>>
  /\ coord = NoCoordinator
  /\ responseLog = <<>>
  /\ nextCalls = 0
  /\ firstFail = <<>>
  /\ handlerThrew = FALSE
  /\ pUncaught = FALSE
  \* the fan-in script is not part of the server
  /\ N = 0
  /\ pc = "off"
  /\ i = 1
  /\ j = 0
  /\ responses = EmptyObject
  /\ requests = {}
  /\ reports = [k \in 1..MaxN |-> 0]
  /\ processCalls = <<>>
  /\ uncaught = FALSE
  /\ fsys = [stat |-> "file", read |-> [error |-> FALSE, data |-> <<>>], write |-> "ok"]
  /\ gc = [v \in Versions |-> NotCalled("off")]
  /\ script = <<>>
  /\ wrapped = FALSE
  /\ phase = "off"
  /\ block = <<>>
  /\ origin = "none"
  /\ tryFrames = 0
  /\ timerQ = <<>>
  /\ immediateQ = <<>>
  /\ tickQ = <<>>
  /\ due = 0
  /\ refs = 0
  /\ cycle = 0
  /\ throwLog = <<>>
  /\ lastTimer = <<>>
  /\ ticksRun = 0
  /\ limit = <<>>
  /\ rpc = "off"
  /\ genCalls = 0
  /\ reported = <<>>
  /\ cbArgs = <<>>
  /\ console = <<>>

\* the callback of fs.readdir('public', ...) fills files
ReadDirCallback ==
  /\ pstate # "off"
  /\ files = EmptyObject
  /\ files' = Public
  /\ UNCHANGED <<pstate, urlName, assets, readPending, cbCalls, coord,
                 responseLog, nextCalls, firstFail, handlerThrew, pUncaught>>
  /\ UNCHANGED <<fanVars, custVars, loopVars, randVars>>

\* the middleware without its else: next() is called for every request
MiddlewareAlwaysNext(pathname) ==
  /\ pstate = "idle"
  /\ urlName' = UrlName(pathname)
  /\ nextCalls' = nextCalls + 1
  /\ IF urlName' \in DOMAIN files
       THEN /\ assets' = Assets(urlName')
            /\ readPending' = 1..Len(assets')
            /\ cbCalls' = [t \in 1..Len(assets') |-> 0]
            /\ coord' = Parallel(Len(assets'))
            /\ pstate' = "running"
       ELSE /\ pstate' = "next"
            /\ UNCHANGED <<assets, readPending, cbCalls, coord>>
  /\ UNCHANGED <<files, responseLog, firstFail, handlerThrew, pUncaught>>
  /\ UNCHANGED <<fanVars, custVars, loopVars, randVars>>

\* app.use((request, response, next)=>{ ... }) for a request of pathname
Middleware(pathname) ==
  /\ pstate = "idle"
  /\ urlName' = UrlName(pathname)
  /\ IF urlName' \in DOMAIN files
       THEN /\ assets' = Assets(urlName')
            /\ readPending' = 1..Len(assets')
            /\ cbCalls' = [t \in 1..Len(assets') |-> 0]
            /\ coord' = Parallel(Len(assets'))
            /\ pstate' = "running"
            /\ UNCHANGED nextCalls
       ELSE /\ nextCalls' = nextCalls + 1
            /\ pstate' = "next"
            /\ UNCHANGED <<assets, readPending, cbCalls, coord>>
  /\ UNCHANGED <<files, responseLog, firstFail, handlerThrew, pUncaught>>
  /\ UNCHANGED <<fanVars, custVars, loopVars, randVars>>

(* What one fs.readFile callback of a task does, as a record:                *)
(*   co: the coordinator afterwards; cbs: the calls of cb it made;           *)
(*   log: what it did to response; ends: the calls of response.end();        *)
(*   escaped: an exception left the callback.                                *)

\* cb(err) called outside of any try block
PlainCb(co, t, err, log, endThrows) ==
  LET co2 == Report(co, t, err)
  IN  [co |-> co2, cbs |-> 1, log |-> log,
       ends |-> IF Fired(co, co2) THEN 1 ELSE 0,
       escaped |-> Fired(co, co2) /\ endThrows]

\* the push without its try/catch: an exception of push leaves the callback
TryPushNoCatch(co, t, file, pushThrows, endThrows) ==
  IF pushThrows
    THEN [co |-> co, cbs |-> 0, log |-> <<>>, ends |-> 0, escaped |-> TRUE]
    ELSE PlainCb(co, t, None, <<[op |-> "push", file |-> file]>>, endThrows)

\* try { response.push(...).end(data); cb() } catch(e) { cb(e) }
TryPush(co, t, file, pushThrows, endThrows) ==
  IF pushThrows
    THEN PlainCb(co, t, "pushError", <<>>, endThrows)
    ELSE LET co2 == Report(co, t, None)
             co3 == Report(co2, t, "handlerError")
         IN  IF Fired(co, co2) /\ endThrows
               THEN [co |-> co3, cbs |-> 2, log |-> <<[op |-> "push", file |-> file]>>,
                     ends |-> 1 + (IF Fired(co2, co3) THEN 1 ELSE 0),
                     escaped |-> Fired(co2, co3)]
               ELSE [co |-> co2, cbs |-> 1, log |-> <<[op |-> "push", file |-> file]>>,
                     ends |-> IF Fired(co, co2) THEN 1 ELSE 0,
                     escaped |-> FALSE]

\* (error, data)=>{ ... } of an asset task
AssetTask(co, t, file, error, pushThrows, endThrows) ==
  IF error
    THEN PlainCb(co, t, "readError", <<>>, endThrows)
    ELSE TryPush(co, t, file, pushThrows, endThrows)

\* the HTML task without "if (error) return cb(error)"
HtmlTaskIgnoresError(co, t, error, endThrows) ==
  PlainCb(co, t, None, <<[op |-> "write"]>>, endThrows)

\* (error, data)=>{ ... } of the HTML task
HtmlTask(co, t, error, endThrows) ==
  IF error
    THEN PlainCb(co, t, "readError", <<>>, endThrows)
    ELSE PlainCb(co, t, None, <<[op |-> "write"]>>, endThrows)

\* the ops response.end() adds to the log
RECURSIVE Ends(_)
Ends(n) == IF n = 0 THEN <<>> ELSE <<[op |-> "end"]>> \o Ends(n - 1)

\* the fs.readFile callback of task t runs
ReadFileCallback(t, error, pushThrows, endThrows) ==
  /\ pstate = "running"
  /\ t \in readPending
  /\ LET task == assets[t]
         out  == IF task.kind = "html"
                   THEN HtmlTask(coord, t, error, endThrows)
                   ELSE AssetTask(coord, t, task.file, error, pushThrows, endThrows)
         failed == error \/ (task.kind = "asset" /\ pushThrows)
     IN  /\ (task.kind = "html" \/ error) => ~pushThrows
         /\ (out.ends = 0) => ~endThrows
         /\ readPending' = readPending \ {t}
         /\ cbCalls' = [cbCalls EXCEPT ![t] = @ + out.cbs]
         /\ coord' = out.co
         /\ responseLog' = responseLog \o out.log \o Ends(out.ends)
         /\ firstFail' = IF failed /\ firstFail = <<>>
                           THEN <<t, IF error THEN "readError" ELSE "pushError">>
                           ELSE firstFail
         /\ handlerThrew' = (handlerThrew \/ endThrows)
         /\ pUncaught' = (pUncaught \/ out.escaped)
         /\ pstate' = IF out.escaped THEN "crashed" ELSE pstate
  /\ UNCHANGED <<files, urlName, assets, nextCalls>>
  /\ UNCHANGED <<fanVars, custVars, loopVars, randVars>>

PushNext ==
  \/ ReadDirCallback
  \/ \E pathname \in Paths : Middleware(pathname)
  \/ \E t \in TaskKeys, error \in BOOLEAN, pushThrows \in BOOLEAN, endThrows \in BOOLEAN :
        ReadFileCallback(t, error, pushThrows, endThrows)

PushSpec == PushInit /\ [][PushNext]_vars

(***************************************************************************)
(* getCustomers                                                            *)
(***************************************************************************)

\* longest content of customers.csv
MaxCsvLen == 2

\* the characters of customers.csv
CsvChars == {"a", ",", "\n"}

\* the contents customers.csv may have
Csvs == UNION {[1..n -> CsvChars] : n \in 0..MaxCsvLen}

\* undefined
Undefined == "undefined"

\* positions of sep in str
Seps(str, sep) == {x \in 1..Len(str) : str[x] = sep}

\* String.prototype.split(sep)
RECURSIVE Split(_, _)
Split(str, sep) ==
  IF Seps(str, sep) = {}
    THEN <<str>>
    ELSE LET x == CHOOSE y \in Seps(str, sep) : \A z \in Seps(str, sep) : y <= z
         IN  <<SubSeq(str, 1, x - 1)>> \o Split(SubSeq(str, x + 1, Len(str)), sep)

\* customerLine => { id: customerArray[0], first_name: customerArray[1] }
Customer(customerLine) ==
  LET customerArray == Split(customerLine, ",")
  IN  [id |-> customerArray[1],
       first_name |-> IF Len(customerArray) >= 2 THEN customerArray[2] ELSE Undefined]

\* customersCSV.split('\n').map(...)
Customers(customersCSV) ==
  LET lines == Split(customersCSV, "\n")
  IN  [x \in 1..Len(lines) |-> Customer(lines[x])]

\* JSON.stringify of one customer: a property that is undefined is left out
StringifyCustomer(c) ==
  <<"{", <<"id", c.id>>>>
    \o (IF c.first_name = Undefined THEN <<>> ELSE <<<<"first_name", c.first_name>>>>)
    \o <<"}">>

\* JSON.stringify(customers, 0, 4)
Stringify(customers) ==
  <<"[">> \o [x \in 1..Len(customers) |-> StringifyCustomer(customers[x])] \o <<"]">>

\* callback(error) / callback(null, data): the call is recorded
CallBack(st, args) == [st EXCEPT !.calls = Append(@, args), !.pc = "done"]

\* the body of the readFile callback once the error is out of the way
ReadBody(st, customersCSV) ==
  [st EXCEPT !.json = Stringify(Customers(customersCSV)),
             !.ops = Append(@, "writeFile"),
             !.pc = "write"]

\* the body of the writeFile callback: return callback(null, customersJSON)
WriteBody(st) == CallBack(st, <<None, st.json>>)

\* function(error, stats){ if (stats.isFile()) ... else console.error(...) }
StatDone(st) ==
  IF fsys.stat = "error"
    THEN [st EXCEPT !.pc = "crashed", !.uncaught = TRUE]
  ELSE IF fsys.stat = "file"
    THEN [st EXCEPT !.ops = Append(@, "readFile"), !.pc = "read"]
  ELSE [st EXCEPT !.notFound = TRUE, !.pc = "done"]

\* okay(callback, handler) that drops the error instead of passing it up
OkaySwallows(st, error, handled) ==
  IF error # None THEN [st EXCEPT !.pc = "done"] ELSE handled

\* okay(callback, handler): the error goes to callback, else handler runs
Okay(st, error, handled) ==
  IF error # None THEN CallBack(st, <<error>>) ELSE handled

\* the readFile callback without "if (error) return callback(error)"
PlainReadDoneUnchecked(st) ==
  ReadBody(st, fsys.read.data)

\* function(error, customersCSV){ if (error) return callback(error) ... }
PlainReadDone(st) ==
  IF fsys.read.error THEN CallBack(st, <<"readError">>) ELSE ReadBody(st, fsys.read.data)

\* okay(callback, function(customersCSV){ ... })
OkayReadDone(st) ==
  Okay(st, IF fsys.read.error THEN "readError" ELSE None, ReadBody(st, fsys.read.data))

\* the writeFile callback without "if (error) return callback(error)"
PlainWriteDoneUnchecked(st) == WriteBody(st)

\* function(error){ if (error) return callback(error); return callback(null, customersJSON) }
PlainWriteDone(st) ==
  IF fsys.write = "error" THEN CallBack(st, <<"writeError">>) ELSE WriteBody(st)

\* an okay that passes the error to callback and runs the handler all the same
OkayWriteDoneRunsHandler(st) ==
  WriteBody(IF fsys.write = "error" THEN CallBack(st, <<"writeError">>) ELSE st)

\* okay(callback, function(){ return callback(null, customersJSON) })
OkayWriteDone(st) ==
  Okay(st, IF fsys.write = "error" THEN "writeError" ELSE None, WriteBody(st))

\* both scripts are about to call getCustomers(console.log)
CustInit ==
  /\ fsys \in [stat : {"error", "file", "notfile"},
               read : {[error |-> TRUE, data |-> <<>>]}
                        \cup {[error |-> FALSE, data |-> c] : c \in Csvs},
               write : {"error", "ok"}]
  /\ gc = [v \in Versions |-> NotCalled("start")]
  /\ N = 0
  /\ pc = "off"
  /\ i = 1
  /\ j = 0
  /\ responses = EmptyObject
  /\ requests = {}
  /\ reports = [k \in 1..MaxN |-> 0]
  /\ processCalls = <<>>
  /\ uncaught = FALSE
  /\ files = EmptyObject
  /\ pstate = "off"
  /\ urlName = <<>>
  /\ assets = <<>>
  /\ readPending = {}
  /\ cbCalls = <<>>
  /\ coord = NoCoordinator
  /\ responseLog = <<>>
  /\ nextCalls = 0
  /\ firstFail = <<>>
  /\ handlerThrew = FALSE
  /\ pUncaught = FALSE
  /\ script = <<>>
  /\ wrapped = FALSE
  /\ phase = "off"
  /\ block = <<>>
  /\ origin = "none"
  /\ tryFrames = 0
  /\ timerQ = <<>>
  /\ immediateQ = <<>>
  /\ tickQ = <<>>
  /\ due = 0
  /\ refs = 0
  /\ cycle = 0
  /\ throwLog = <<>>
  /\ lastTimer = <<>>
  /\ ticksRun = 0
  /\ limit = <<>>
  /\ rpc = "off"
  /\ genCalls = 0
  /\ reported = <<>>
  /\ cbArgs = <<>>
  /\ console = <<>>

\* getCustomers(callback): fs.stat(inputFile, ...) is started
GetCustomers(v) ==
  /\ gc[v].pc = "start"
  /\ gc' = [gc EXCEPT ![v] = [@ EXCEPT !.ops = Append(@, "stat"), !.pc = "stat"]]
  /\ UNCHANGED fsys
  /\ UNCHANGED <<fanVars, pushVars, loopVars, randVars>>

\* the callback of fs.stat runs
StatCallback(v) ==
  /\ gc[v].pc = "stat"
  /\ gc' = [gc EXCEPT ![v] = StatDone(@)]
  /\ UNCHANGED fsys
  /\ UNCHANGED <<fanVars, pushVars, loopVars, randVars>>

\* the callback of fs.readFile runs
CsvReadCallback(v) ==
  /\ gc[v].pc = "read"
  /\ gc' = [gc EXCEPT ![v] = IF v = "plain" THEN PlainReadDone(@) ELSE OkayReadDone(@)]
  /\ UNCHANGED fsys
  /\ UNCHANGED <<fanVars, pushVars, loopVars, randVars>>

\* the callback of fs.writeFile runs
JsonWriteCallback(v) ==
  /\ gc[v].pc = "write"
  /\ gc' = [gc EXCEPT ![v] = IF v = "plain" THEN PlainWriteDone(@) ELSE OkayWriteDone(@)]
  /\ UNCHANGED fsys
  /\ UNCHANGED <<fanVars, pushVars, loopVars, randVars>>

CustNext ==
  \/ \E v \in Versions : GetCustomers(v)
  \/ \E v \in Versions : StatCallback(v)
  \/ \E v \in Versions : CsvReadCallback(v)
  \/ \E v \in Versions : JsonWriteCallback(v)

CustSpec == CustInit /\ [][CustNext]_vars

(***************************************************************************)
(* The event loop                                                          *)
(*                                                                         *)
(*   1. You launch a script: node index.js                                 *)
(*   2. setTimeout() and setInterval() kick in                             *)
(*   4. Unicorn function                                                   *)
(*   6. setImmediate() which is not really immediate                       *)
(*   8. Clean up with close events                                         *)
(*  10. process exit if no refs or back to 2 if you have refs              *)
(*   (3, 5, 7, 9: the code the callbacks of the step before run)           *)
(***************************************************************************)

\* longest script
MaxStmts == 2

\* nextTick callbacks counted by ticksRun
MaxTicks == 3

\* the callbacks a script may schedule
Bodies == {"log", "throw", "chain", "again"}

\* the statements a script is made of
Stmts ==
  {[op |-> "log", body |-> "none"], [op |-> "throw", body |-> "none"]}
    \cup [op : {"setTimeout"}, body : {"log", "throw", "chain"}]
    \cup [op : {"setImmediate"}, body : {"log", "chain"}]
    \cup [op : {"nextTick"}, body : {"log", "again"}]

\* the statements of a callback
BodyOf(body) ==
  CASE body = "log"   -> <<[op |-> "log", body |-> "none"]>>
    [] body = "throw" -> <<[op |-> "throw", body |-> "none"]>>
    [] body = "chain" -> <<[op |-> "setTimeout", body |-> "log"]>>
    [] body = "again" -> <<[op |-> "nextTick", body |-> "again"]>>

\* the scripts
Scripts == UNION {[1..n -> Stmts] : n \in 0..MaxStmts}

\* a callback that would keep the try blocks of the place that scheduled it
CallbackTryFramesOfScheduler == IF wrapped THEN 1 ELSE 0

\* a callback starts on a fresh stack: no try block of the script is around it
CallbackTryFrames == 0

\* a JS block that would be over while nextTick callbacks are still queued
BlockDoneIgnoringTicks == phase \notin {"off", "exited", "crashed"} /\ block = <<>>

\* the JS block is over, its process.nextTick callbacks included
BlockDone ==
  /\ phase \notin {"off", "exited", "crashed"}
  /\ block = <<>>
  /\ tickQ = <<>>

\* a statement of the running block is next
Running(op) ==
  /\ phase \notin {"off", "exited", "crashed"}
  /\ block # <<>>
  /\ Head(block).op = op

\* node index.js: the file starts to run
LoopInit ==
  /\ script \in Scripts
  /\ wrapped \in BOOLEAN
  /\ phase = "launch"
  /\ block = script
  /\ origin = "script"
  /\ tryFrames = (IF wrapped THEN 1 ELSE 0)
  /\ timerQ = <<>>
  /\ immediateQ = <<>>
  /\ tickQ = <<>>
  /\ due = 0
  /\ refs = 0
  /\ cycle = 0
  /\ throwLog = <<>>
  /\ lastTimer = <<>>
  /\ ticksRun = 0
  /\ limit = <<>>
  /\ rpc = "off"
  /\ genCalls = 0
  /\ reported = <<>>
  /\ cbArgs = <<>>
  /\ console = <<>>
  /\ N = 0
  /\ pc = "off"
  /\ i = 1
  /\ j = 0
  /\ responses = EmptyObject
  /\ requests = {}
  /\ reports = [k \in 1..MaxN |-> 0]
  /\ processCalls = <<>>
  /\ uncaught = FALSE
  /\ files = EmptyObject
  /\ pstate = "off"
  /\ urlName = <<>>
  /\ assets = <<>>
  /\ readPending = {}
  /\ cbCalls = <<>>
  /\ coord = NoCoordinator
  /\ responseLog = <<>>
  /\ nextCalls = 0
  /\ firstFail = <<>>
  /\ handlerThrew = FALSE
  /\ pUncaught = FALSE
  /\ fsys = [stat |-> "file", read |-> [error |-> FALSE, data |-> <<>>], write |-> "ok"]
  /\ gc = [v \in Versions |-> NotCalled("off")]

\* console.log(...)
Log ==
  /\ Running("log")
  /\ block' = Tail(block)
  /\ UNCHANGED <<script, wrapped, phase, origin, tryFrames, timerQ, immediateQ, tickQ,
                 due, refs, cycle, throwLog, lastTimer, ticksRun>>
  /\ UNCHANGED <<fanVars, pushVars, custVars, randVars>>

\* throw new Error('BOOM!'): caught by an enclosing try of the stack, and the
\* catch block ends the script; else the process dies
Throw ==
  /\ Running("throw")
  /\ throwLog' = Append(throwLog, [origin |-> origin, caught |-> tryFrames > 0])
  /\ IF tryFrames > 0
       THEN block' = <<>> /\ tryFrames' = tryFrames - 1 /\ UNCHANGED phase
       ELSE phase' = "crashed" /\ UNCHANGED <<block, tryFrames>>
  /\ UNCHANGED <<script, wrapped, origin, timerQ, immediateQ, tickQ, due, refs, cycle,
                 lastTimer, ticksRun>>
  /\ UNCHANGED <<fanVars, pushVars, custVars, randVars>>

\* a setTimeout that would call its callback before returning
SetTimeoutRunsNow ==
  /\ Running("setTimeout")
  /\ block' = BodyOf(Head(block).body) \o Tail(block)
  /\ lastTimer' = <<cycle, cycle>>
  /\ UNCHANGED <<script, wrapped, phase, origin, tryFrames, timerQ, immediateQ, tickQ,
                 due, refs, cycle, throwLog, ticksRun>>
  /\ UNCHANGED <<fanVars, pushVars, custVars, randVars>>

\* setTimeout(callback, 0)
SetTimeout ==
  /\ Running("setTimeout")
  /\ timerQ' = Append(timerQ, [body |-> Head(block).body, at |-> cycle])
  /\ refs' = refs + 1
  /\ block' = Tail(block)
  /\ UNCHANGED <<script, wrapped, phase, origin, tryFrames, immediateQ, tickQ, due,
                 cycle, throwLog, lastTimer, ticksRun>>
  /\ UNCHANGED <<fanVars, pushVars, custVars, randVars>>

\* setImmediate(callback)
SetImmediate ==
  /\ Running("setImmediate")
  /\ immediateQ' = Append(immediateQ, Head(block).body)
  /\ refs' = refs + 1
  /\ block' = Tail(block)
  /\ UNCHANGED <<script, wrapped, phase, origin, tryFrames, timerQ, tickQ, due, cycle,
                 throwLog, lastTimer, ticksRun>>
  /\ UNCHANGED <<fanVars, pushVars, custVars, randVars>>

\* process.nextTick(callback)
NextTick ==
  /\ Running("nextTick")
  /\ tickQ' = Append(tickQ, Head(block).body)
  /\ refs' = refs + 1
  /\ block' = Tail(block)
  /\ UNCHANGED <<script, wrapped, phase, origin, tryFrames, timerQ, immediateQ, due,
                 cycle, throwLog, lastTimer, ticksRun>>
  /\ UNCHANGED <<fanVars, pushVars, custVars, randVars>>

\* the running block has ended and a nextTick callback is queued: it runs
\* now, in the same step of the loop
RunTick ==
  /\ phase \notin {"off", "exited", "crashed"}
  /\ block = <<>>
  /\ tickQ # <<>>
  /\ block' = BodyOf(Head(tickQ))
  /\ tickQ' = Tail(tickQ)
  /\ refs' = refs - 1
  /\ origin' = "tick"
  /\ tryFrames' = CallbackTryFrames
  /\ ticksRun' = (IF ticksRun < MaxTicks THEN ticksRun + 1 ELSE ticksRun)
  /\ UNCHANGED <<script, wrapped, phase, timerQ, immediateQ, due, cycle, throwLog,
                 lastTimer>>
  /\ UNCHANGED <<fanVars, pushVars, custVars, randVars>>

\* step 2: a timer that was pending when the step began runs its callback
RunTimer ==
  /\ BlockDone
  /\ phase = "timers"
  /\ due > 0
  /\ block' = BodyOf(Head(timerQ).body)
  /\ timerQ' = Tail(timerQ)
  /\ refs' = refs - 1
  /\ due' = due - 1
  /\ origin' = "timer"
  /\ tryFrames' = CallbackTryFrames
  /\ lastTimer' = <<Head(timerQ).at, cycle>>
  /\ UNCHANGED <<script, wrapped, phase, immediateQ, tickQ, cycle, throwLog, ticksRun>>
  /\ UNCHANGED <<fanVars, pushVars, custVars, randVars>>

\* step 6: a setImmediate callback that was pending when the step began runs
RunImmediate ==
  /\ BlockDone
  /\ phase = "immediate"
  /\ due > 0
  /\ block' = BodyOf(Head(immediateQ))
  /\ immediateQ' = Tail(immediateQ)
  /\ refs' = refs - 1
  /\ due' = due - 1
  /\ origin' = "immediate"
  /\ tryFrames' = CallbackTryFrames
  /\ UNCHANGED <<script, wrapped, phase, timerQ, tickQ, cycle, throwLog, lastTimer,
                 ticksRun>>
  /\ UNCHANGED <<fanVars, pushVars, custVars, randVars>>

\* the loop moves to its next step: 1 -> 2, 2 -> 4, 4 -> 6, 6 -> 8, 8 -> 10
NextPhase ==
  /\ BlockDone
  /\ due = 0
  /\ phase \in {"launch", "timers", "poll", "immediate", "close"}
  /\ phase' = CASE phase = "launch"    -> "timers"
                [] phase = "timers"    -> "poll"
                [] phase = "poll"      -> "immediate"
                [] phase = "immediate" -> "close"
                [] phase = "close"     -> "exit?"
  /\ due' = CASE phase' = "timers"    -> Len(timerQ)
              [] phase' = "immediate" -> Len(immediateQ)
              [] OTHER                -> 0
  /\ cycle' = (IF phase = "launch" THEN cycle + 1 ELSE cycle)
  /\ origin' = "none"
  /\ tryFrames' = 0
  /\ UNCHANGED <<script, wrapped, block, timerQ, immediateQ, tickQ, refs, throwLog,
                 lastTimer, ticksRun>>
  /\ UNCHANGED <<fanVars, pushVars, custVars, randVars>>

\* a step 10 that would end the process whatever refs is
ExitAlways ==
  /\ BlockDone
  /\ phase = "exit?"
  /\ phase' = "exited"
  /\ UNCHANGED <<script, wrapped, block, origin, tryFrames, timerQ, immediateQ, tickQ,
                 due, refs, cycle, throwLog, lastTimer, ticksRun>>
  /\ UNCHANGED <<fanVars, pushVars, custVars, randVars>>

\* step 10: process exit if no refs or back to 2 if you have refs
ExitOrLoop ==
  /\ BlockDone
  /\ phase = "exit?"
  /\ IF refs = 0
       THEN phase' = "exited" /\ UNCHANGED <<due, cycle>>
       ELSE phase' = "timers" /\ due' = Len(timerQ) /\ cycle' = cycle + 1
  /\ UNCHANGED <<script, wrapped, block, origin, tryFrames, timerQ, immediateQ, tickQ,
                 refs, throwLog, lastTimer, ticksRun>>
  /\ UNCHANGED <<fanVars, pushVars, custVars, randVars>>

LoopNext ==
  \/ Log
  \/ Throw
  \/ SetTimeout
  \/ SetImmediate
  \/ NextTick
  \/ RunTick
  \/ RunTimer
  \/ RunImmediate
  \/ NextPhase
  \/ ExitOrLoop

LoopSpec == LoopInit /\ [][LoopNext]_vars

(***************************************************************************)
(* generateRandomNumber                                                    *)
(*                                                                         *)
(* JS values that may be missing are tuples: <<>> is undefined, <<n>> is   *)
(* the number n.                                                           *)
(***************************************************************************)

\* largest limit tried (the script calls generateRandomNumber(7, ...))
MaxLimit == 7

\* the limits the caller may pass: none, or 0..MaxLimit
Limits == {<<>>} \cup {<<n>> : n \in 0..MaxLimit}

\* what the slow generator may pass as number: nothing, or 0..MaxLimit+1
Numbers == {<<>>} \cup {<<n>> : n \in 0..(MaxLimit + 1)}

\* the errors the slow generator may pass: null or an Error
GeneratorErrors == {None, "generatorError"}

\* !value for a number or undefined
Falsy(value) == value = <<>> \/ value[1] = 0

\* a > b; a comparison with undefined is false
Greater(a, b) == a # <<>> /\ b # <<>> /\ a[1] > b[1]

\* new Error('Limit not provided')
LimitNotProvided == "Limit not provided"

\* new Error('Oooops, something went wrong. Number is higher than the limit. ...')
NumberTooHigh == "Number is higher than the limit"

\* the caller's callback: (error, number) => { if (error) console.error(error)
\* else console.log(number) }
CallerCallback(args) ==
  IF args.error # None
    THEN [stream |-> "stderr", error |-> args.error]
    ELSE [stream |-> "stdout", number |-> args.number]

\* the generator's callback without "if (error) return callback(error, number)"
GeneratorDoneIgnoresError(error, number) ==
  IF Greater(number, limit)
    THEN [error |-> NumberTooHigh, number |-> <<>>]
    ELSE [error |-> None, number |-> number]

\* (error, number) => { if (number > limit) {...} else {...} }: the arguments
\* it passes to callback
GeneratorDone(error, number) ==
  IF Greater(number, limit)
    THEN [error |-> NumberTooHigh, number |-> <<>>]
  ELSE IF error # None
    THEN [error |-> error, number |-> number]
  ELSE [error |-> None, number |-> number]

\* the script is about to call generateRandomNumber(limit, callback)
RandInit ==
  /\ limit \in Limits
  /\ rpc = "start"
  /\ genCalls = 0
  /\ reported = <<>>
  /\ cbArgs = <<>>
  /\ console = <<>>
  /\ N = 0
  /\ pc = "off"
  /\ i = 1
  /\ j = 0
  /\ responses = EmptyObject
  /\ requests = {}
  /\ reports = [k \in 1..MaxN |-> 0]
  /\ processCalls = <<>>
  /\ uncaught = FALSE
  /\ files = EmptyObject
  /\ pstate = "off"
  /\ urlName = <<>>
  /\ assets = <<>>
  /\ readPending = {}
  /\ cbCalls = <<>>
  /\ coord = NoCoordinator
  /\ responseLog = <<>>
  /\ nextCalls = 0
  /\ firstFail = <<>>
  /\ handlerThrew = FALSE
  /\ pUncaught = FALSE
  /\ fsys = [stat |-> "file", read |-> [error |-> FALSE, data |-> <<>>], write |-> "ok"]
  /\ gc = [v \in Versions |-> NotCalled("off")]
  /\ script = <<>>
  /\ wrapped = FALSE
  /\ phase = "off"
  /\ block = <<>>
  /\ origin = "none"
  /\ tryFrames = 0
  /\ timerQ = <<>>
  /\ immediateQ = <<>>
  /\ tickQ = <<>>
  /\ due = 0
  /\ refs = 0
  /\ cycle = 0
  /\ throwLog = <<>>
  /\ lastTimer = <<>>
  /\ ticksRun = 0

\* generateRandomNumber without the return of its first line: the error is
\* reported and the slow generator is started all the same
GenerateRandomNumberNoReturn ==
  /\ rpc = "start"
  /\ LET args == [error |-> LimitNotProvided, number |-> <<>>]
     IN  /\ cbArgs' = IF Falsy(limit) THEN Append(cbArgs, args) ELSE cbArgs
         /\ console' = IF Falsy(limit) THEN Append(console, CallerCallback(args))
                                       ELSE console
  /\ genCalls' = genCalls + 1
  /\ rpc' = "waiting"
  /\ UNCHANGED <<limit, reported>>
  /\ UNCHANGED <<fanVars, pushVars, custVars, loopVars>>

\* generateRandomNumber(limit, callback) is called
GenerateRandomNumber ==
  /\ rpc = "start"
  /\ IF Falsy(limit)
       THEN LET args == [error |-> LimitNotProvided, number |-> <<>>]
            IN  /\ cbArgs' = Append(cbArgs, args)
                /\ console' = Append(console, CallerCallback(args))
                /\ rpc' = "done"
                /\ UNCHANGED genCalls
       ELSE /\ genCalls' = genCalls + 1
            /\ rpc' = "waiting"
            /\ UNCHANGED <<cbArgs, console>>
  /\ UNCHANGED <<limit, reported>>
  /\ UNCHANGED <<fanVars, pushVars, custVars, loopVars>>

\* the slow generator calls back with (error, number)
GeneratorCallback(error, number) ==
  /\ rpc = "waiting"
  /\ reported' = <<[error |-> error, number |-> number]>>
  /\ LET args == GeneratorDone(error, number)
     IN  /\ cbArgs' = Append(cbArgs, args)
         /\ console' = Append(console, CallerCallback(args))
  /\ rpc' = "done"
  /\ UNCHANGED <<limit, genCalls>>
  /\ UNCHANGED <<fanVars, pushVars, custVars, loopVars>>

RandNext ==
  \/ GenerateRandomNumber
  \/ \E error \in GeneratorErrors, number \in Numbers : GeneratorCallback(error, number)

RandSpec == RandInit /\ [][RandNext]_vars

(***************************************************************************)
(* Properties of the counter-based fan-in                                  *)
(***************************************************************************)

\* the requests whose callback has run at least once
Completed == {k \in requests : reports[k] >= 1}

\* every request of the loop has called back exactly once
AllReportedOnce == pc # "loop" /\ \A k \in 1..N : reports[k] = 1

\* no callback has run twice
NoDuplicate == \A k \in 1..MaxN : reports[k] <= 1

\* C1: for every N >= 0 and every completion order, processResponses fires
\* exactly once: never twice, and once all N requests have called back
\* (each once) it has fired.
C1_FiresExactlyOnce ==
  /\ Len(processCalls) <= 1
  /\ AllReportedOnce => Len(processCalls) = 1

\* C2: with zero tasks the handler fires immediately, with an empty
\* ResultSet: when the script of N = 0 ends, processResponses has been
\* called with {}.
C2_ZeroTasksFireImmediately ==
  (N = 0 /\ pc # "loop") => (Len(processCalls) = 1 /\ processCalls[1] = EmptyObject)

\* C3: when all N requests succeed, processResponses receives exactly N
\* entries, the entry under index k being the response of request k.
C3_ResultsKeyedByIndex ==
  (NoDuplicate /\ Len(processCalls) >= 1) =>
     processCalls[1] = [k \in 1..N |-> Resp(k)]

\* C4: once the dispatching loop is over, the handler has fired if and only
\* if the number of completed tasks equals the number of dispatched tasks,
\* and it has not fired more than once.
C4_FiredIffAllCompleted ==
  pc # "loop" =>
    /\ (Len(processCalls) >= 1) <=> (Cardinality(Completed) = Cardinality(requests))
    /\ Len(processCalls) <= 1

\* C5: a step in which a task reports completion a second time leaves the
\* handler fired at most once and leaves the results recorded for the other
\* tasks as they were.
C5_DuplicateKeepsOtherResults ==
  [][\A k \in 1..MaxN :
       (reports[k] >= 1 /\ reports'[k] = reports[k] + 1) =>
          /\ Len(processCalls') <= 1
          /\ \A key \in DOMAIN responses :
               responses[key] # Resp(k) =>
                  (key \in DOMAIN responses' /\ responses'[key] = responses[key])]_vars

\* C6: a duplicate report does not increment the counter: the counter equals
\* the number of distinct tasks that have completed.
C6_CounterCountsDistinctTasks ==
  j = Cardinality(Completed)

\* C11: the loop dispatches all N requests before any request's callback
\* runs: once a callback has run, the loop is over and every request 1..N
\* has been dispatched (the callbacks then run in any order).
C11_DispatchBeforeCallbacks ==
  j > 0 => (pc # "loop" /\ requests = 1..N /\ i = N + 1)

\* all three requests were dispatched and the last one called back first
C11_Witness ==
  /\ N = 3
  /\ requests = {1, 2, 3}
  /\ reports[3] = 1
  /\ reports[1] = 0
  /\ reports[2] = 0

\* C12: one result slot per task key, written exactly once when that task
\* completes: the slots are exactly the completed tasks and each holds the
\* result of its own task.
C12_OneSlotPerCompletedTask ==
  /\ DOMAIN responses = Completed
  /\ \A k \in Completed : responses[k] = Resp(k)

\* C13: once the ResultSet has been handed to the completion handler, no
\* later callback adds, removes or changes an entry of it.
C13_FrozenAfterHandOver ==
  [][Len(processCalls) >= 1 => responses' = responses]_vars

\* C30: if every dispatched request calls back exactly once, then
\* processResponses is invoked; and as long as at least one request has not
\* called back, processResponses is not invoked (there is no timeout).
C30_InvokedIffAllCalledBack ==
  /\ AllReportedOnce => Len(processCalls) >= 1
  /\ (pc # "loop" /\ \E k \in 1..N : reports[k] = 0) => Len(processCalls) = 0

\* C21: in the variant that calls processResponses(responses) right after
\* the loop, processResponses runs before any request callback: it is called
\* once, when the loop ends, with the empty object, and whenever a callback
\* has run it had been called already.
C21_ProcessedBeforeAnyCallback ==
  /\ pc # "loop" => processCalls = <<EmptyObject>>
  /\ pc = "loop" => processCalls = <<>>
  /\ \A k \in 1..MaxN : reports[k] >= 1 => processCalls = <<EmptyObject>>

\* three requests: processResponses got {} and every callback has run since
C21_Witness ==
  /\ N = 3
  /\ processCalls = <<EmptyObject>>
  /\ \A k \in 1..3 : reports[k] = 1
  /\ responses # EmptyObject

(***************************************************************************)
(* Properties of getCustomers                                              *)
(***************************************************************************)

\* the callback of the x-th started file operation of version v has run
CallbackRan(v, x) ==
  /\ Len(gc[v].ops) >= x
  /\ (Len(gc[v].ops) = x => gc[v].pc \notin {"stat", "read", "write"})

\* version v has nothing more to do
Terminal(v) == gc[v].pc \in {"done", "crashed"}

\* s is a prefix of t
IsPrefix(s, t) == Len(s) <= Len(t) /\ SubSeq(t, 1, Len(s)) = s

\* C14: in both versions of getCustomers every error reported by fs.stat,
\* fs.readFile or fs.writeFile is passed to the caller's callback as its
\* first argument.
C14_EveryErrorPassedUp ==
  \A v \in Versions :
     /\ (CallbackRan(v, 1) /\ fsys.stat = "error") => gc[v].calls = <<<<"statError">>>>
     /\ (CallbackRan(v, 2) /\ fsys.read.error) => gc[v].calls = <<<<"readError">>>>
     /\ (CallbackRan(v, 3) /\ fsys.write = "error") => gc[v].calls = <<<<"writeError">>>>

\* C15: getCustomers calls callback(null, customersJSON) only after
\* fs.writeFile has reported success, with the JSON of the file that was
\* read, and never when readFile or writeFile reported an error.
C15_SuccessOnlyAfterWrite ==
  \A v \in Versions : \A x \in 1..Len(gc[v].calls) :
     gc[v].calls[x][1] = None =>
        /\ gc[v].calls[x] = <<None, Stringify(Customers(fsys.read.data))>>
        /\ gc[v].ops = <<"stat", "readFile", "writeFile">>
        /\ CallbackRan(v, 3)
        /\ fsys.write = "ok"
        /\ ~fsys.read.error

\* both versions have reported success for a file of two lines
C15_Witness ==
  /\ fsys.read.data = <<"a", "\n">>
  /\ \A v \in Versions :
        gc[v].calls = <<<<None, <<"[", <<"{", <<"id", <<"a">>>>, "}">>,
                                       <<"{", <<"id", <<>>>>, "}">>, "]">>>>>>

\* C16: under every combination of outcomes of fs.stat, fs.readFile and
\* fs.writeFile the okay version and the hand-written version start the same
\* file operations in the same order and call callback the same number of
\* times with the same arguments.
C16_OkayEquivalent ==
  LET p == gc["plain"]
      o == gc["okay"]
  IN  /\ IsPrefix(p.ops, o.ops) \/ IsPrefix(o.ops, p.ops)
      /\ IsPrefix(p.calls, o.calls) \/ IsPrefix(o.calls, p.calls)
      /\ (Terminal("plain") /\ Terminal("okay")) => p = o

\* both versions have passed the error of fs.writeFile to callback
C16_Witness ==
  /\ fsys.write = "error"
  /\ Terminal("plain") /\ Terminal("okay")
  /\ gc["okay"].calls = <<<<"writeError">>>>
  /\ gc["okay"].ops = <<"stat", "readFile", "writeFile">>

\* C25: getCustomers invokes the caller's callback at most once per call,
\* whatever fs.stat, fs.readFile and fs.writeFile report.
C25_CallbackAtMostOnce ==
  \A v \in Versions : Len(gc[v].calls) <= 1

\* writeFile failed and both versions have called back, once
C25_Witness ==
  /\ fsys.write = "error"
  /\ ~fsys.read.error
  /\ \A v \in Versions : CallbackRan(v, 3) /\ Len(gc[v].calls) = 1

\* C26: every call of getCustomers ends with the caller's callback invoked
\* (with an error or with the JSON), also when fs.stat fails and when the
\* input path is not a regular file: a call that has nothing more to do has
\* invoked the callback.
C26_CallbackAlwaysInvoked ==
  \A v \in Versions : Terminal(v) => Len(gc[v].calls) >= 1

\* C27: the file operations run in the order stat, readFile, writeFile:
\* readFile is started only if stat says the input is a file, writeFile only
\* after readFile succeeded, and when readFile fails nothing is written.
C27_StatReadWriteInOrder ==
  \A v \in Versions :
     /\ IsPrefix(gc[v].ops, <<"stat", "readFile", "writeFile">>)
     /\ Len(gc[v].ops) >= 2 => (fsys.stat = "file" /\ CallbackRan(v, 1))
     /\ Len(gc[v].ops) >= 3 => (~fsys.read.error /\ CallbackRan(v, 2))
     /\ fsys.read.error => \A x \in 1..Len(gc[v].ops) : gc[v].ops[x] # "writeFile"

\* readFile failed in both versions: they are over and wrote nothing
C27_Witness ==
  /\ fsys.read.error
  /\ \A v \in Versions : Terminal(v) /\ gc[v].ops = <<"stat", "readFile">>

(***************************************************************************)
(* Properties of the event loop                                            *)
(***************************************************************************)

\* a nextTick callback that schedules itself again is queued or running
AgainPending ==
  \/ \E x \in 1..Len(tickQ) : tickQ[x] = "again"
  \/ origin = "tick" /\ block = BodyOf("again")

\* C17: an error thrown inside a setTimeout (or any scheduled) callback is
\* not caught by the try/catch around the call that scheduled it and kills
\* the process, while a throw executed synchronously inside the try block is
\* caught and the script goes on.
C17_AsyncThrowNotCaught ==
  /\ \A x \in 1..Len(throwLog) :
        throwLog[x].caught <=> (throwLog[x].origin = "script" /\ wrapped)
  /\ phase = "crashed" <=> (throwLog # <<>> /\ ~throwLog[Len(throwLog)].caught)

\* async-throw.js: try { setTimeout(function(){ throw ... }, 0) } catch ...
\* has crashed in the timer callback
C17_Witness ==
  /\ wrapped
  /\ script = <<[op |-> "setTimeout", body |-> "throw"]>>
  /\ throwLog = <<[origin |-> "timer", caught |-> FALSE]>>
  /\ phase = "crashed"

\* C18: a callback scheduled with setTimeout(cb, 0) never runs in the block
\* that scheduled it: it runs in the timers step of a later cycle of the
\* loop, after every statement of the file.
C18_TimerRunsInLaterCycle ==
  /\ lastTimer # <<>> => lastTimer[1] < lastTimer[2]
  /\ origin = "timer" => phase \in {"timers", "crashed"}

\* setTimeout(log, 0); console.log(): the file is over and the timer ran
C18_Witness ==
  /\ script = <<[op |-> "setTimeout", body |-> "log"], [op |-> "log", body |-> "none"]>>
  /\ lastTimer = <<0, 1>>
  /\ origin = "timer"
  /\ block = <<>>

\* C19: refs is incremented when a callback is scheduled and decremented
\* when it is run, so it counts the callbacks still to run; at the end of a
\* cycle the process exits if and only if refs is zero, else the loop goes
\* back to the timers step.
C19_RefsDecideExit ==
  /\ [](refs = Len(timerQ) + Len(immediateQ) + Len(tickQ))
  /\ [][/\ phase = "exit?" => (IF refs = 0 THEN phase' = "exited" ELSE phase' = "timers")
        /\ phase' = "exited" => (phase = "exit?" /\ refs = 0)]_vars

\* the loop went back to step 2 once and exited at the end of the 2nd cycle
C19_Witness ==
  /\ phase = "exited"
  /\ cycle = 2
  /\ refs = 0

\* C20: nextTick callbacks run inside the current JS block: while one is
\* queued the loop does not move on and runs no setTimeout or setImmediate
\* callback, and a nextTick callback that schedules itself again stays
\* queued for ever.
C20_NextTickStarvesLoop ==
  [][/\ tickQ # <<>> =>
          /\ phase' \in {phase, "crashed"}
          /\ cycle' = cycle
          /\ Len(timerQ') >= Len(timerQ)
          /\ Len(immediateQ') >= Len(immediateQ)
     /\ AgainPending => AgainPending']_vars

\* the self-scheduling nextTick callback has run twice and the timer set
\* before it is still waiting in step 1
C20_Witness ==
  /\ ticksRun >= 2
  /\ AgainPending
  /\ Len(timerQ) = 1
  /\ phase = "launch"
  /\ cycle = 0

(***************************************************************************)
(* Properties of generateRandomNumber                                      *)
(***************************************************************************)

\* the slow generator reported no error and a number not greater than limit
GeneratorSucceeded ==
  /\ reported # <<>>
  /\ reported[1].error = None
  /\ ~Greater(reported[1].number, limit)

\* C23: error-first convention: callback receives null as first argument,
\* together with the number, if and only if the slow generator reported no
\* error and the number is not greater than limit; in every other case the
\* first argument is an Error.
C23_ErrorFirst ==
  \A x \in 1..Len(cbArgs) :
     /\ cbArgs[x].error = None <=> GeneratorSucceeded
     /\ GeneratorSucceeded => cbArgs[x].number = reported[1].number
     /\ ~GeneratorSucceeded =>
           cbArgs[x].error \in {LimitNotProvided, NumberTooHigh, "generatorError"}

\* generateRandomNumber(7, ...): the generator gave 7 and callback got (null, 7)
C23_Witness ==
  /\ limit = <<7>>
  /\ reported = <<[error |-> None, number |-> <<7>>]>>
  /\ cbArgs = <<[error |-> None, number |-> <<7>>]>>

\* C24: callback is invoked exactly once per call, and when limit is missing
\* (falsy) the 'Limit not provided' error is reported and nothing else
\* happens: slowButGoodRandomGenerator is never invoked.
C24_OnceAndStopsWithoutLimit ==
  /\ Len(cbArgs) <= 1
  /\ rpc = "done" <=> Len(cbArgs) = 1
  /\ (Falsy(limit) /\ rpc # "start") =>
        /\ rpc = "done"
        /\ genCalls = 0
        /\ cbArgs = <<[error |-> LimitNotProvided, number |-> <<>>]>>

\* generateRandomNumber(0, ...) has reported its error without the generator
C24_Witness ==
  /\ limit = <<0>>
  /\ rpc = "done"
  /\ genCalls = 0
  /\ Len(cbArgs) = 1
  /\ console = <<[stream |-> "stderr", error |-> LimitNotProvided]>>

(***************************************************************************)
(* Properties of the push middleware                                       *)
(***************************************************************************)

\* the calls of response.end() so far
EndCount == Cardinality({x \in 1..Len(responseLog) : responseLog[x].op = "end"})

\* the final callback was invoked because of a failure
FailureDelivered == Len(coord.calls) >= 1 /\ coord.calls[1].kind = "failure"

\* C7: in fail-fast mode, if task K is the first task to fail, the handler is
\* invoked once, with K's failure tagged to K and no ResultSet, and nothing
\* that happens afterwards changes what it received or invokes it again.
C7_FirstFailureDelivered ==
  firstFail # <<>> =>
     coord.calls = <<[kind |-> "failure", key |-> firstFail[1], reason |-> firstFail[2]]>>

\* task 2 failed before any other task called back, the handler got its
\* failure, and the two other tasks of the page have called back since
C7_Witness ==
  /\ FailureDelivered
  /\ Len(assets) = 3
  /\ readPending = {}
  /\ coord.reported = {1, 2, 3}
  /\ coord.slots = {}
  /\ firstFail[1] = 2

C9_CbExactlyOnce ==
  \A t \in DOMAIN cbCalls :
     /\ cbCalls[t] <= 1
     /\ (t \notin readPending /\ pstate = "running") => cbCalls[t] = 1

\* C10: an exception thrown by the completion handler propagates to the top
\* level; no task catches it or reports another completion because of it.
C10_HandlerErrorPropagates ==
  handlerThrew => (pUncaught /\ \A t \in DOMAIN cbCalls : cbCalls[t] <= 1)

\* C22: the files map is complete (one entry for every file of the public
\* folder) before the server handles its first request: the step in which
\* the middleware takes a request finds the whole map.
C22_FilesCompleteBeforeFirstRequest ==
  [][(pstate = "idle" /\ pstate' # "idle") => files = Public]_vars

\* C28: nothing is written to a response after it has been ended: no
\* response.write(data) and no response.push(...) follows a response.end().
C28_NoWriteAfterEnd ==
  \A x \in 1..Len(responseLog) : \A y \in 1..Len(responseLog) :
     (x < y /\ responseLog[x].op = "end") => responseLog[y].op \notin {"write", "push"}

====
